---- MODULE Spec2Model ----
(***************************************************************************)
(* Articles Retrieval API (src/main.py): the GET /articles handler, which  *)
(* validates a field selection, builds one Elasticsearch search request,   *)
(* shapes the hits into articles and computes the pagination metadata, and *)
(* the GET /health handler.                                                *)
(*                                                                         *)
(* Encoding of Python values:                                              *)
(*   Optional[x]   None is <<>>, a present value x is <<x>>                *)
(*   query text    a sequence of lexemes: a word, " " or ","; the string   *)
(*                 made of the single word w is <<w>>                      *)
(*   JSON scalar   null is <<"null">>, the string s is <<"str", s>>,       *)
(*                 the list l is <<"list", l>>                             *)
(*   dict          a function from its keys                                *)
(***************************************************************************)
EXTENDS Integers, Sequences, FiniteSets, TLC

\* ------------------------------------------------------------------ bounds
MaxSize == 2
MaxPage == 2
MaxFieldsLen == 3
MaxHits == 2
MaxTotal == 3

\* ------------------------------------------------------- program constants
SizeGe == 1
SizeLe == 100
PageGe == 1

ES_INDEX == "articles"

None == <<>>
Some(x) == <<x>>

JNull == <<"null">>
JStr(s) == <<"str", s>>
JList(l) == <<"list", l>>

\* Python truthiness of an Optional[str] (None and "" are falsy).
TruthyStr(v) == v # None /\ v[1] # ""

\* Python truthiness of an Optional query text (None and the empty text are falsy).
TruthyText(v) == v # None /\ v[1] # <<>>

\* Python truthiness of a stored JSON value (None and "" are falsy).
TruthyJson(v) == v # JNull /\ v # JStr("")

\* Available fields mapping (API field -> ES field)
FIELD_MAPPING ==
    [title |-> "title",
     description |-> "meta_description",
     coverImage |-> "meta_img",
     link |-> "url",
     slug |-> "url_path_dir3",
     publishedAt |-> "meta_published_time",
     authors |-> "meta_author",
     body |-> "article_content"]

\* list(FIELD_MAPPING.keys()): the keys in declaration order
VALID_FIELDS ==
    <<"title", "description", "coverImage", "link", "slug", "publishedAt",
      "authors", "body">>

\* The string made of the single word w.
Word(w) == <<w>>

\* f in VALID_FIELDS, for a string f of the query text
InValidFields(f) == \E i \in 1..Len(VALID_FIELDS) : Word(VALID_FIELDS[i]) = f

\* ----------------------------------------------------------- str helpers
\* index of the first "," of s, or 0
RECURSIVE FirstComma(_, _)
FirstComma(s, i) ==
    IF i > Len(s) THEN 0
    ELSE IF s[i] = "," THEN i
    ELSE FirstComma(s, i + 1)

\* s.split(",")
RECURSIVE split(_)
split(s) ==
    LET i == FirstComma(s, 1)
    IN  IF i = 0 THEN <<s>>
        ELSE <<SubSeq(s, 1, i - 1)>> \o split(SubSeq(s, i + 1, Len(s)))

RECURSIVE lstrip(_)
lstrip(s) == IF s # <<>> /\ Head(s) = " " THEN lstrip(Tail(s)) ELSE s

RECURSIVE rstrip(_)
rstrip(s) ==
    IF s # <<>> /\ s[Len(s)] = " " THEN rstrip(SubSeq(s, 1, Len(s) - 1)) ELSE s

\* f.strip()
strip(s) == rstrip(lstrip(s))

\* [f.strip() for f in fields.split(",")]
ParseFields(text) == LET parts == split(text) IN [i \in 1..Len(parts) |-> strip(parts[i])]

\* A variant that reports every requested field once one of them is invalid.
InvalidOf_All(requested_fields) ==
    IF \A i \in 1..Len(requested_fields) : InValidFields(requested_fields[i])
    THEN <<>> ELSE requested_fields

\* [f for f in requested_fields if f not in VALID_FIELDS]
RECURSIVE InvalidOf(_)
InvalidOf(requested_fields) ==
    IF requested_fields = <<>> THEN <<>>
    ELSE LET rest == InvalidOf(Tail(requested_fields))
         IN  IF InValidFields(Head(requested_fields)) THEN rest
             ELSE <<Head(requested_fields)>> \o rest

\* requested_fields = VALID_FIELDS
AllFields == [i \in 1..Len(VALID_FIELDS) |-> Word(VALID_FIELDS[i])]

\* [FIELD_MAPPING[f] for f in requested_fields]
EsFields(requested_fields) ==
    [i \in 1..Len(requested_fields) |-> FIELD_MAPPING[requested_fields[i][1]]]

\* ------------------------------------------------------------ exceptions
HTTPException(status_code, detail) ==
    [type |-> "HTTPException", status_code |-> status_code, detail |-> detail]

KeyError(key) == [type |-> "KeyError", status_code |-> 0, detail |-> key]

TransportError == [type |-> "ConnectionError", status_code |-> 0, detail |-> "Connection refused"]

\* str(e): an HTTPException prints as "<status_code>: <detail>", any other
\* exception as its message
StrOf(e) ==
    IF e.type = "HTTPException" THEN <<ToString(e.status_code), ": ", e.detail>>
    ELSE <<e.detail>>

Raise(e) == [raised |-> TRUE, exc |-> e, value |-> JNull]
Return(v) == [raised |-> FALSE, exc |-> JNull, value |-> v]

\* Every detail is a sequence of the parts its text is made of.
ConfigDetail ==
    <<"Elasticsearch client not configured. Please set ELASTICSEARCH_ENDPOINT and ES_API_KEY environment variables.">>

InvalidDetail(invalid) ==
    <<"Invalid fields: ", invalid, ". Valid fields are: ", VALID_FIELDS>>

RetrievalDetail(e) == <<"Error retrieving articles: ", StrOf(e)>>

\* ------------------------------------------------------------ get_articles
\* requested_fields as the handler binds it (lines 84-94)
RequestedFields(fields) ==
    IF TruthyText(fields) THEN ParseFields(fields[1]) ELSE AllFields

AuthorFilter ==
    [bool |-> [filter |-> <<[term |-> ("meta_author.enum" :> "Jeffrey Rengifo")]>>]]

SortOrder == <<("meta_published_time" :> [order |-> "desc"])>>

\* A variant that takes pages to start at 0.
FromParam_PageTimesSize(size, page) == page * size

\* from_param
FromParam(size, page) == (page - 1) * size

\* search_query
SearchQuery(size, page, requested_fields) ==
    [size |-> size,
     from |-> FromParam(size, page),
     _source |-> EsFields(requested_fields),
     query |-> AuthorFilter,
     sort |-> SortOrder]

\* The statements of the try block up to the engine call: the search query,
\* or the exception raised on the way.
BeforeSearch(size, page, fields) ==
    LET requested_fields == RequestedFields(fields)
        invalid == InvalidOf(requested_fields)
    IN  IF TruthyText(fields) /\ invalid # <<>>
        THEN Raise(HTTPException(400, InvalidDetail(invalid)))
        ELSE Return(SearchQuery(size, page, requested_fields))

\* source.get(key, default)
Get(source, key, default) == IF key \in DOMAIN source THEN source[key] ELSE default

\* A variant that wraps whatever source.get returns, without the emptiness test.
FieldValue_AlwaysWrapped(source, api_field) ==
    LET es_field == FIELD_MAPPING[api_field]
    IN  IF api_field = "authors"
        THEN JList(<<Get(source, es_field, JStr(""))>>)
        ELSE Get(source, es_field, JStr(""))

\* article[api_field] for one requested field
FieldValue(source, api_field) ==
    LET es_field == FIELD_MAPPING[api_field]
    IN  IF api_field = "authors"
        THEN IF TruthyJson(Get(source, es_field, JNull))
             THEN JList(<<Get(source, es_field, JStr(""))>>)
             ELSE JList(<<>>)
        ELSE Get(source, es_field, JStr(""))

\* A variant that copies only the fields the source document holds.
RECURSIVE ShapeArticle_OnlyStored(_, _, _)
ShapeArticle_OnlyStored(source, requested_fields, article) ==
    IF requested_fields = <<>> THEN article
    ELSE LET api_field == Head(requested_fields)[1]
         IN  ShapeArticle_OnlyStored(source, Tail(requested_fields),
                 IF FIELD_MAPPING[api_field] \in DOMAIN source
                 THEN (api_field :> FieldValue(source, api_field)) @@ article
                 ELSE article)

\* for api_field in requested_fields: article[api_field] = ...
RECURSIVE ShapeArticle(_, _, _)
ShapeArticle(source, requested_fields, article) ==
    IF requested_fields = <<>> THEN article
    ELSE LET api_field == Head(requested_fields)[1]
         IN  ShapeArticle(source, Tail(requested_fields),
                          (api_field :> FieldValue(source, api_field)) @@ article)

\* A variant that stops at the first hit without a source and keeps the
\* articles shaped so far.
RECURSIVE ShapeHits_Partial(_, _, _)
ShapeHits_Partial(hits, requested_fields, articles) ==
    IF hits = <<>> THEN Return(articles)
    ELSE IF "_source" \notin DOMAIN Head(hits) THEN Return(articles)
    ELSE ShapeHits_Partial(Tail(hits), requested_fields,
             Append(articles, ShapeArticle(Head(hits)._source, requested_fields, <<>>)))

\* for hit in response["hits"]["hits"]: ... articles.append(article)
RECURSIVE ShapeHits(_, _, _)
ShapeHits(hits, requested_fields, articles) ==
    IF hits = <<>> THEN Return(articles)
    ELSE IF "_source" \notin DOMAIN Head(hits) THEN Raise(KeyError("_source"))
    ELSE ShapeHits(Tail(hits), requested_fields,
                   Append(articles, ShapeArticle(Head(hits)._source, requested_fields, <<>>)))

\* A variant that rounds down.
TotalPages_Floor(total, size) == total \div size

\* total_pages
TotalPages(total, size) == (total + size - 1) \div size

\* The statements of the try block after the engine call returned response.
AfterSearch(size, page, requested_fields, response) ==
    IF "hits" \notin DOMAIN response THEN Raise(KeyError("hits"))
    ELSE LET shaped == ShapeHits(response.hits.hits, requested_fields, <<>>)
         IN  IF shaped.raised THEN shaped
             ELSE IF "total" \notin DOMAIN response.hits THEN Raise(KeyError("total"))
             ELSE Return([articles |-> shaped.value,
                          total |-> response.hits.total.value,
                          page |-> page,
                          size |-> size,
                          total_pages |-> TotalPages(response.hits.total.value, size)])

\* except Exception as e: raise HTTPException(500, ...)
ExceptException(out) ==
    IF out.raised THEN Raise(HTTPException(500, RetrievalDetail(out.exc))) ELSE out

\* A variant that calls the engine again when the call fails.
SearchCalls_Retry(pre, reply) ==
    IF pre.raised THEN <<>>
    ELSE IF reply.raised
    THEN <<[index |-> ES_INDEX, body |-> pre.value], [index |-> ES_INDEX, body |-> pre.value]>>
    ELSE <<[index |-> ES_INDEX, body |-> pre.value]>>

\* The search calls the try block issues, given what the engine does with a
\* call (reply): none when an exception precedes the call, else exactly one.
SearchCalls(pre, reply) ==
    IF pre.raised THEN <<>> ELSE <<[index |-> ES_INDEX, body |-> pre.value]>>

\* try: ... (lines 82-141), with the engine answering a call by reply
TryBlock(size, page, fields, reply) ==
    LET pre == BeforeSearch(size, page, fields)
    IN  IF pre.raised THEN pre
        ELSE IF reply.raised THEN reply
        ELSE AfterSearch(size, page, RequestedFields(fields), reply.value)

\* A variant without the test of es_client: the call on None raises
\* AttributeError inside the try block.
get_articles_Unguarded(client, size, page, fields, reply) ==
    [result |-> ExceptException(
                    TryBlock(size, page, fields,
                             IF client = None
                             THEN Raise([type |-> "AttributeError", status_code |-> 0,
                                         detail |-> "'NoneType' object has no attribute 'search'"])
                             ELSE reply)),
     search_calls |-> IF client = None THEN <<>>
                      ELSE SearchCalls(BeforeSearch(size, page, fields), reply)]

\* The handler: its outcome (a returned dict or a raised HTTPException) and
\* the engine calls it made.
get_articles(client, size, page, fields, reply) ==
    IF client = None
    THEN [result |-> Raise(HTTPException(500, ConfigDetail)), search_calls |-> <<>>]
    ELSE [result |-> ExceptException(TryBlock(size, page, fields, reply)),
          search_calls |-> SearchCalls(BeforeSearch(size, page, fields), reply)]

\* The engine is not consulted.
NoReply == Raise([type |-> "NotCalled", status_code |-> 0, detail |-> ""])

\* Whether the handler reaches the es_client.search call.
CallsEngine(client, size, page, fields) ==
    get_articles(client, size, page, fields, NoReply).search_calls # <<>>

\* The handler of GET /health.
healthcheck(client) ==
    IF client # None THEN Return([status |-> "ok"]) ELSE Return(JNull)

\* Query(..., ge=1, le=100) and Query(..., ge=1): the framework's validation
QueryValid(size, page) == size >= SizeGe /\ size <= SizeLe /\ page >= PageGe

\* The HTTP response the framework makes of a handler's outcome.
ToResponse(result) ==
    IF result.raised
    THEN [status_code |-> result.exc.status_code, body |-> [detail |-> result.exc.detail]]
    ELSE [status_code |-> 200, body |-> result.value]

\* es_client = Elasticsearch(...) if ELASTICSEARCH_ENDPOINT and ES_API_KEY else None
MakeClient(endpoint, api_key) ==
    IF TruthyStr(endpoint) /\ TruthyStr(api_key) THEN Some("Elasticsearch") ELSE None

\* ------------------------------------------------------------- the inputs
EnvValues == {None, Some(""), Some("set")}

Sizes == (0..MaxSize) \cup {SizeLe, SizeLe + 1}
Pages == 0..MaxPage

Lexemes == {"title", "authors", "bogus", "nope", " ", ","}
Texts == UNION {[1..n -> Lexemes] : n \in 0..MaxFieldsLen}
FieldsParams == {None} \cup {Some(t) : t \in Texts}

\* The stored documents of the index: each holds some of the stored fields,
\* as a string, an empty string or null.
Sources ==
    {<<>>,
     [title |-> JStr("A"), meta_author |-> JStr("Jeffrey Rengifo")],
     [title |-> JStr(""), meta_author |-> JNull],
     [title |-> JNull, meta_author |-> JStr("")]}

Hits == {[_id |-> "1", _source |-> s] : s \in Sources} \cup {[_id |-> "1"]}
HitLists == UNION {[1..n -> Hits] : n \in 0..MaxHits}

Responses ==
    {[hits |-> [hits |-> hs, total |-> [value |-> t]]] : hs \in HitLists, t \in 0..MaxTotal}
    \cup {[hits |-> [hits |-> hs]] : hs \in HitLists}
    \cup {[took |-> 1]}

EngineReplies == {Raise(TransportError)} \cup {Return(r) : r \in Responses}

\* ---------------------------------------------------------------- state
VARIABLES
    es_client,                          \* the module-level engine handle
    pc,                                 \* "idle", "get_articles" (handler called), "done"
    request,                            \* the request being served
    es_reply,                           \* what the engine answers to this request's call
    search_calls,                       \* the es_client.search calls of this request
    response                            \* the HTTP response of this request

vars == <<es_client, pc, request, es_reply, search_calls, response>>

NoRequest == [path |-> "", size |-> 0, page |-> 0, fields |-> None]
NoResponse == [status_code |-> 0, body |-> JNull]

\* The module is loaded: the environment is read once, to make the client.
Init ==
    /\ \E ELASTICSEARCH_ENDPOINT \in EnvValues, ES_API_KEY \in EnvValues :
           es_client = MakeClient(ELASTICSEARCH_ENDPOINT, ES_API_KEY)
    /\ pc = "idle"
    /\ request = NoRequest
    /\ es_reply = NoReply
    /\ search_calls = <<>>
    /\ response = NoResponse

\* GET /articles?size=&page=&fields= arrives: the framework validates the
\* query parameters and either rejects the request or calls the handler.
ReceiveArticles ==
    /\ pc = "idle"
    /\ \E size \in Sizes, page \in Pages, fields \in FieldsParams :
         /\ request' = [path |-> "/articles", size |-> size, page |-> page, fields |-> fields]
         /\ IF QueryValid(size, page)
            THEN /\ pc' = "get_articles"
                 /\ response' = response
            ELSE /\ pc' = "done"
                 /\ response' = [status_code |-> 422, body |-> [detail |-> <<"validation error">>]]
    /\ UNCHANGED <<es_client, es_reply, search_calls>>

\* The handler get_articles runs; the engine answers the call it makes, if
\* it makes one, by reply.
GetArticles ==
    /\ pc = "get_articles"
    /\ \E reply \in IF CallsEngine(es_client, request.size, request.page, request.fields)
                      THEN EngineReplies ELSE {NoReply} :
         LET done == get_articles(es_client, request.size, request.page, request.fields, reply)
         IN  /\ es_reply' = reply
             /\ search_calls' = done.search_calls
             /\ response' = ToResponse(done.result)
    /\ pc' = "done"
    /\ UNCHANGED <<es_client, request>>

\* GET /health
Healthcheck ==
    /\ pc = "idle"
    /\ request' = [path |-> "/health", size |-> 0, page |-> 0, fields |-> None]
    /\ response' = ToResponse(healthcheck(es_client))
    /\ pc' = "done"
    /\ UNCHANGED <<es_client, es_reply, search_calls>>

\* The response is sent; everything request-scoped is dropped.
SendResponse ==
    /\ pc = "done"
    /\ pc' = "idle"
    /\ request' = NoRequest
    /\ es_reply' = NoReply
    /\ search_calls' = <<>>
    /\ response' = NoResponse
    /\ UNCHANGED es_client

Next == ReceiveArticles \/ GetArticles \/ Healthcheck \/ SendResponse

Spec == Init /\ [][Next]_vars

\* ======================================================== the properties
\* The canonical vocabulary (public -> stored) as the specification states it.
CanonicalStored ==
    [title |-> "title",
     description |-> "meta_description",
     coverImage |-> "meta_img",
     link |-> "url",
     slug |-> "url_path_dir3",
     publishedAt |-> "meta_published_time",
     authors |-> "meta_author",
     body |-> "article_content"]

CanonicalOrder ==
    <<"title", "description", "coverImage", "link", "slug", "publishedAt",
      "authors", "body">>

Vocabulary == DOMAIN CanonicalStored

\* The handler get_articles has served the request.
Handled ==
    /\ pc = "done"
    /\ request.path = "/articles"
    /\ request.size \in 1..100
    /\ request.page >= 1

Configured == es_client # None

\* No field selection: the parameter is missing or empty.
FieldsAbsent == request.fields = None \/ request.fields = Some(<<>>)

\* The names the request asks for, in request order.
Names == IF FieldsAbsent THEN <<>> ELSE ParseFields(request.fields[1])

IsUnknown(name) == \A w \in Vocabulary : name # <<w>>

UnknownNames == SelectSeq(Names, IsUnknown)

HasUnknown == UnknownNames # <<>>

\* The public names a valid request asks for, in request order.
PublicNames ==
    IF FieldsAbsent THEN CanonicalOrder ELSE [i \in 1..Len(Names) |-> Names[i][1]]

Succeeded == Handled /\ response.status_code = 200

\* The names an error reports as invalid: those of the 400 detail itself or
\* of a 400 detail embedded in a 500 detail; None when it reports none.
ReportedInvalid ==
    LET d == response.body.detail
    IN  IF d[1] = "Invalid fields: " THEN Some(d[2])
        ELSE IF d[1] = "Error retrieving articles: " /\ Len(d[2]) = 3
                /\ d[2][3][1] = "Invalid fields: "
        THEN Some(d[2][3][2])
        ELSE None

\* C1 (as stated): on a configured client, a request whose fields hold an
\* unknown name is answered with HTTP 400 and the detail
\* "Invalid fields: [...]. Valid fields are: [...]".
C1_UnknownFieldsGive400 ==
    (Handled /\ Configured /\ HasUnknown) =>
        /\ response.status_code = 400
        /\ response.body.detail =
               <<"Invalid fields: ", UnknownNames, ". Valid fields are: ", CanonicalOrder>>

\* C2 (as stated): every request whose fields hold an unknown name is
\* rejected with an error that lists exactly the unknown names in request
\* order, and the engine is not called.
C2_UnknownFieldsRejected ==
    (Handled /\ HasUnknown) =>
        /\ response.status_code >= 400
        /\ search_calls = <<>>
        /\ ReportedInvalid = Some(UnknownNames)

\* C2 (amended): on a configured client, every request whose fields hold an
\* unknown name is rejected with an error that lists exactly the unknown
\* names in request order, and the engine is not called.
C2_UnknownFieldsRejectedWhenConfigured ==
    (Handled /\ Configured /\ HasUnknown) =>
        /\ response.status_code >= 400
        /\ "articles" \notin DOMAIN response.body
        /\ search_calls = <<>>
        /\ ReportedInvalid = Some(UnknownNames)

C2_Witness ==
    /\ Handled /\ Configured
    /\ Len(UnknownNames) = 2
    /\ UnknownNames[1] # UnknownNames[2]
    /\ Len(Names) = 2
    /\ ReportedInvalid = Some(UnknownNames)

\* C3: in a successful response every article's key set is exactly the set
\* of requested public names (all eight when fields is absent), whatever the
\* hit's source document holds.
C3_ArticleKeys ==
    Succeeded =>
        LET names == PublicNames
            keys == {names[k] : k \in 1..Len(names)}
        IN  \A i \in 1..Len(response.body.articles) :
                DOMAIN response.body.articles[i] = keys

C3_Witness ==
    /\ Succeeded
    /\ ~FieldsAbsent
    /\ PublicNames = <<"authors", "title">>
    /\ Len(response.body.articles) = 2
    /\ es_reply.value.hits.hits[1]._source = <<>>
    /\ DOMAIN response.body.articles[1] = {"authors", "title"}

\* The stored meta_author of hit i is absent, null or the empty string.
NoStoredAuthor(i) ==
    LET source == es_reply.value.hits.hits[i]._source
    IN  \/ "meta_author" \notin DOMAIN source
        \/ source.meta_author = JNull
        \/ source.meta_author = JStr("")

\* C4: where authors is requested, an article's authors is the empty list
\* when the stored meta_author is absent, null or empty, and otherwise the
\* one-element list of the stored string.
C4_Authors ==
    (Succeeded /\ LET names == PublicNames
                  IN  \E k \in 1..Len(names) : names[k] = "authors") =>
        \A i \in 1..Len(response.body.articles) :
            LET authors == response.body.articles[i].authors
            IN  /\ authors[1] = "list"
                /\ IF NoStoredAuthor(i) THEN authors[2] = <<>>
                   ELSE /\ Len(authors[2]) = 1
                        /\ authors[2][1] = es_reply.value.hits.hits[i]._source.meta_author
                        /\ authors[2][1][1] = "str"

C4_Witness ==
    /\ Succeeded
    /\ \E k \in 1..Len(PublicNames) : PublicNames[k] = "authors"
    /\ Len(response.body.articles) = 2
    /\ response.body.articles[1].authors = JList(<<JStr("Jeffrey Rengifo")>>)
    /\ "meta_author" \in DOMAIN es_reply.value.hits.hits[2]._source
    /\ es_reply.value.hits.hits[2]._source.meta_author = JNull
    /\ response.body.articles[2].authors = JList(<<>>)

\* C5 (as stated): every requested field other than authors is a string in
\* the article: the stored string when the document holds one, else "".
C5_OtherFieldsAreStrings ==
    Succeeded =>
        \A i \in 1..Len(response.body.articles) :
            \A name \in LET names == PublicNames IN {names[k] : k \in 1..Len(names)} :
                LET stored == CanonicalStored[name]
                    source == es_reply.value.hits.hits[i]._source
                    value == response.body.articles[i][name]
                IN  name # "authors" =>
                        /\ value[1] = "str"
                        /\ value = IF stored \in DOMAIN source /\ source[stored][1] = "str"
                                   THEN source[stored] ELSE JStr("")

\* C6: the search request of a valid request on a configured client has
\* size = size, from = (page - 1) * size, _source = the stored names of the
\* requested public names in request order, and the fixed author filter.
C6_SearchRequest ==
    (Handled /\ Configured /\ ~HasUnknown) =>
        /\ Len(search_calls) = 1
        /\ search_calls[1].body.size = request.size
        /\ search_calls[1].body.from = (request.page - 1) * request.size
        /\ search_calls[1].body._source =
               LET names == PublicNames
               IN  [k \in 1..Len(names) |-> CanonicalStored[names[k]]]
        /\ search_calls[1].body.query =
               [bool |-> [filter |-> <<[term |-> ("meta_author.enum" :> "Jeffrey Rengifo")]>>]]

C6_Witness ==
    /\ Handled /\ Configured /\ ~HasUnknown
    /\ request.size = 2
    /\ request.page = 2
    /\ PublicNames = <<"authors", "title">>
    /\ Len(search_calls) = 1
    /\ search_calls[1].body.from = 2
    /\ search_calls[1].body._source = <<"meta_author", "title">>

\* C7: in a successful response total, page and size are the engine's total
\* and the requested page and size; total_pages is 0 when total = 0 and
\* otherwise the ceiling of total / size.
C7_Pagination ==
    Succeeded =>
        LET b == response.body
            total == es_reply.value.hits.total.value
        IN  /\ b.total = total
            /\ b.page = request.page
            /\ b.size = request.size
            /\ total = 0 => b.total_pages = 0
            /\ total > 0 =>
                   /\ (b.total_pages - 1) * request.size < total
                   /\ total <= b.total_pages * request.size

C7_Witness ==
    /\ Succeeded
    /\ request.size = 2
    /\ response.body.total = 3
    /\ response.body.total_pages = 2

\* The engine's response cannot be parsed: a key the handler reads is missing.
Unparsable(r) ==
    \/ "hits" \notin DOMAIN r
    \/ "total" \notin DOMAIN r.hits
    \/ \E i \in 1..Len(r.hits.hits) : "_source" \notin DOMAIN r.hits.hits[i]

EngineFailed ==
    /\ search_calls # <<>>
    /\ es_reply.raised \/ Unparsable(es_reply.value)

\* C8: when the engine call fails or its response cannot be parsed the
\* outcome is HTTP 500 with the cause in the message and no articles list;
\* every request ends in a full PageResult or in an error, never both.
C8_NoPartialResult ==
    /\ (Handled /\ EngineFailed) =>
           /\ response.status_code = 500
           /\ DOMAIN response.body = {"detail"}
           /\ response.body.detail[1] = "Error retrieving articles: "
           /\ IF es_reply.raised
              THEN response.body.detail[2] = <<es_reply.exc.detail>>
              ELSE response.body.detail[2] \in {<<"hits">>, <<"_source">>, <<"total">>}
    /\ Handled =>
           IF response.status_code = 200
           THEN /\ DOMAIN response.body = {"articles", "total", "page", "size", "total_pages"}
                /\ ~EngineFailed
                /\ Len(response.body.articles) = Len(es_reply.value.hits.hits)
           ELSE /\ response.status_code >= 400
                /\ DOMAIN response.body = {"detail"}

C8_Witness ==
    /\ Handled /\ EngineFailed
    /\ ~es_reply.raised
    /\ Len(es_reply.value.hits.hits) = 2
    /\ "_source" \in DOMAIN es_reply.value.hits.hits[1]
    /\ "_source" \notin DOMAIN es_reply.value.hits.hits[2]
    /\ response.status_code = 500
    /\ response.body.detail[2] = <<"_source">>

CallsDue == IF Handled /\ Configured /\ ~HasUnknown THEN 1 ELSE 0

====
